---- MODULE Spec2Model ----
(***************************************************************************)
(* A model of src/witness/memory.rs: the segmented, multi-context memory   *)
(* of the trace generator (MemoryState), the memory-operation records      *)
(* (MemoryOp) with their timestamp encoding, and the sorting key of the    *)
(* memory-consistency argument.                                            *)
(*                                                                         *)
(* usize is modelled as an unsigned integer of UsizeBits bits.  A usize    *)
(* addition or multiplication that overflows panics in a build with        *)
(* overflow checks and wraps modulo 2^UsizeBits in a build without them;   *)
(* the operators below take the build's choice as the parameter `checked`. *)
(* A panic ends the program: status becomes "panicked" and nothing else    *)
(* happens.                                                                *)
(***************************************************************************)
EXTENDS Integers, Sequences, FiniteSets, TLC

VARIABLES
    kernel_code,  \* the initial image handed to MemoryState::new
    contexts,     \* MemoryState.contexts
    status,       \* "ok", or "panicked" once a call has panicked
    used,         \* number of operations submitted so far (set calls, list elements)
    call,         \* the call in progress or just returned: its arguments, the
                  \* MemoryState before it and what it returned
    made,         \* the MemoryOp::new constructions of the current cycle
    log,          \* the chronological operation log of the executor
    sorted,       \* the log after the sort by sorting_key, <<>> before it
    clk,          \* the executor's clock
    written       \* the addresses passed to set so far

vars == <<kernel_code, contexts, status, used, call, made, log, sorted, clk, written>>

----------------------------------------------------------------------------
(* Bounds of the model *)

UsizeBits == 4        \* width of usize in the model
MaxOps == 3           \* operations submitted to one MemoryState
MaxImageLen == 2      \* length of the initial image

USIZE_MAX == 2 ^ UsizeBits - 1

(* External configuration: crate::cpu::membus and crate::memory::segments *)
NUM_GP_CHANNELS == 2
NUM_CHANNELS == NUM_GP_CHANNELS + 1
SegmentCount == 2     \* Segment::COUNT
SegmentCode == 0      \* Segment::Code as usize

Read == "Read"
Write == "Write"
MemoryOpKind == {Read, Write}

----------------------------------------------------------------------------
(* MemoryChannel *)

Code == [tag |-> "Code", n |-> 0]
GeneralPurpose(n) == [tag |-> "GeneralPurpose", n |-> n]

\* index() with the bound off by one: n <= NUM_GP_CHANNELS
MemoryChannel_index_le(channel) ==
    IF channel.tag = "Code"
    THEN [panic |-> FALSE, val |-> 0]
    ELSE IF channel.n <= NUM_GP_CHANNELS
         THEN [panic |-> FALSE, val |-> channel.n + 1]
         ELSE [panic |-> TRUE, val |-> 0]

\* index(): the assert! is part of every build
MemoryChannel_index(channel) ==
    IF channel.tag = "Code"
    THEN [panic |-> FALSE, val |-> 0]
    ELSE IF channel.n < NUM_GP_CHANNELS
         THEN [panic |-> FALSE, val |-> channel.n + 1]
         ELSE [panic |-> TRUE, val |-> 0]

----------------------------------------------------------------------------
(* MemoryAddress *)

MemoryAddress_new(context, segment, virt) ==
    [context |-> context, segment |-> segment, virt |-> virt]

\* the addition that wraps in usize
wrapping_add(a, b) == (a + b) % (USIZE_MAX + 1)

saturating_add(a, b) == IF a + b > USIZE_MAX THEN USIZE_MAX ELSE a + b

MemoryAddress_increment(address) ==
    [address EXCEPT !.virt = saturating_add(address.virt, 1)]

----------------------------------------------------------------------------
(* MemoryOp *)

DUMMY_MEMOP ==
    [filter |-> FALSE, timestamp |-> 0,
     address |-> [context |-> 0, segment |-> 0, virt |-> 0],
     kind |-> Read, value |-> 0]

\* clock * NUM_CHANNELS + channel.index(), left to right, in usize
MemoryOp_new(channel, clock, address, kind, value, checked) ==
    LET prod == clock * NUM_CHANNELS
        idx == MemoryChannel_index(channel)
        sum == (prod % (USIZE_MAX + 1)) + idx.val
        none == [panic |-> TRUE, op |-> DUMMY_MEMOP]
    IN  IF prod > USIZE_MAX /\ checked THEN none
        ELSE IF idx.panic THEN none
        ELSE IF sum > USIZE_MAX /\ checked THEN none
        ELSE [panic |-> FALSE,
              op |-> [filter |-> TRUE,
                      timestamp |-> sum % (USIZE_MAX + 1),
                      address |-> address,
                      kind |-> kind,
                      value |-> value]]

MemoryOp_new_dummy_read(address, timestamp, value) ==
    [filter |-> FALSE, timestamp |-> timestamp, address |-> address,
     kind |-> Read, value |-> value]

\* the key with the timestamp first
sorting_key_time_first(op) ==
    <<op.timestamp, op.address.context, op.address.segment, op.address.virt>>

\* the key that puts the later operation on an address first
sorting_key_latest_first(op) ==
    <<op.address.context, op.address.segment, op.address.virt,
      USIZE_MAX - op.timestamp>>

sorting_key(op) ==
    <<op.address.context, op.address.segment, op.address.virt, op.timestamp>>

----------------------------------------------------------------------------
(* MemorySegmentState *)

MemorySegmentState_default == [content |-> <<>>]

\* get that reads the last cell where the offset is past the end
MemorySegmentState_get_clamp(seg, virtual_addr) ==
    IF virtual_addr < Len(seg.content)
    THEN seg.content[virtual_addr + 1]
    ELSE IF Len(seg.content) > 0
         THEN seg.content[Len(seg.content)]
         ELSE 0

MemorySegmentState_get(seg, virtual_addr) ==
    IF virtual_addr < Len(seg.content)
    THEN seg.content[virtual_addr + 1]
    ELSE 0

\* resize that leaves one cell more than asked for
Resize_extra(content, new_len, value) ==
    IF new_len + 1 <= Len(content)
    THEN SubSeq(content, 1, new_len + 1)
    ELSE content \o [i \in 1..(new_len + 1 - Len(content)) |-> value]

\* Vec::resize(new_len, value)
Resize(content, new_len, value) ==
    IF new_len <= Len(content)
    THEN SubSeq(content, 1, new_len)
    ELSE content \o [i \in 1..(new_len - Len(content)) |-> value]

\* content[virtual_addr] = value: panics when the index is out of bounds
IndexStore(content, virtual_addr, value) ==
    IF virtual_addr < Len(content)
    THEN [panic |-> FALSE,
          seg |-> [content |-> [content EXCEPT ![virtual_addr + 1] = value]]]
    ELSE [panic |-> TRUE, seg |-> [content |-> content]]

\* set that fills the cells below the written one with the value written
MemorySegmentState_set_fill(seg, virtual_addr, value, checked) ==
    IF virtual_addr >= Len(seg.content)
    THEN IF virtual_addr + 1 > USIZE_MAX /\ checked
         THEN [panic |-> TRUE, seg |-> seg]
         ELSE IndexStore(Resize(seg.content,
                                (virtual_addr + 1) % (USIZE_MAX + 1), value),
                         virtual_addr, value)
    ELSE IndexStore(seg.content, virtual_addr, value)

\* set that stores only when it grows the segment
MemorySegmentState_set_grow_only(seg, virtual_addr, value, checked) ==
    IF virtual_addr >= Len(seg.content)
    THEN IF virtual_addr + 1 > USIZE_MAX /\ checked
         THEN [panic |-> TRUE, seg |-> seg]
         ELSE IndexStore(Resize(seg.content,
                                (virtual_addr + 1) % (USIZE_MAX + 1), 0),
                         virtual_addr, value)
    ELSE [panic |-> FALSE, seg |-> seg]

MemorySegmentState_set(seg, virtual_addr, value, checked) ==
    IF virtual_addr >= Len(seg.content)
    THEN IF virtual_addr + 1 > USIZE_MAX /\ checked
         THEN [panic |-> TRUE, seg |-> seg]
         ELSE IndexStore(Resize(seg.content,
                                (virtual_addr + 1) % (USIZE_MAX + 1), 0),
                         virtual_addr, value)
    ELSE IndexStore(seg.content, virtual_addr, value)

----------------------------------------------------------------------------
(* MemoryContextState and MemoryState *)

MemoryContextState_default ==
    [segments |-> [s \in 0..(SegmentCount - 1) |-> MemorySegmentState_default]]

MemoryState_default == <<MemoryContextState_default>>

\* u8 -> u32, x.into(): zero extension
U8ToU32(x) == x % 256

\* new that loads the image into the segment after the code segment
MemoryState_new_wrong_segment(code) ==
    [MemoryState_default EXCEPT
        ![1].segments[SegmentCode + 1].content =
            [i \in 1..Len(code) |-> U8ToU32(code[i])]]

MemoryState_new(code) ==
    [MemoryState_default EXCEPT
        ![1].segments[SegmentCode].content =
            [i \in 1..Len(code) |-> U8ToU32(code[i])]]

\* get whose test of the context lets the context just past the end through
MemoryState_get_gt(ctxs, address) ==
    IF address.context > Len(ctxs)
    THEN [panic |-> FALSE, val |-> 0]
    ELSE IF address.segment >= SegmentCount \/ address.context >= Len(ctxs)
         THEN [panic |-> TRUE, val |-> 0]
         ELSE [panic |-> FALSE,
               val |-> MemorySegmentState_get(
                         ctxs[address.context + 1].segments[address.segment],
                         address.virt)]

\* Segment::all()[address.segment] and segments[address.segment] panic on
\* an index that is no catalog entry
MemoryState_get(ctxs, address) ==
    IF address.context >= Len(ctxs)
    THEN [panic |-> FALSE, val |-> 0]
    ELSE IF address.segment >= SegmentCount
         THEN [panic |-> TRUE, val |-> 0]
         ELSE [panic |-> FALSE,
               val |-> MemorySegmentState_get(
                         ctxs[address.context + 1].segments[address.segment],
                         address.virt)]

\* the loop of set running once more than it has to
PushContexts_extra(ctxs, context) ==
    IF context >= Len(ctxs)
    THEN ctxs \o [i \in 1..(context + 2 - Len(ctxs)) |-> MemoryContextState_default]
    ELSE ctxs

\* the while loop of set: push default contexts until address.context is in range
PushContexts(ctxs, context) ==
    IF context >= Len(ctxs)
    THEN ctxs \o [i \in 1..(context + 1 - Len(ctxs)) |-> MemoryContextState_default]
    ELSE ctxs

MemoryState_set(ctxs, address, val, checked) ==
    LET grown == PushContexts(ctxs, address.context)
    IN  IF address.segment >= SegmentCount
        THEN [panic |-> TRUE, contexts |-> grown]
        ELSE LET r == MemorySegmentState_set(
                        grown[address.context + 1].segments[address.segment],
                        address.virt, val, checked)
             IN  [panic |-> r.panic,
                  contexts |-> [grown EXCEPT
                      ![address.context + 1].segments[address.segment] = r.seg]]

\* apply_ops going through the list from its end
RECURSIVE apply_ops_reversed(_, _, _)
apply_ops_reversed(ctxs, ops, checked) ==
    IF ops = <<>>
    THEN [panic |-> FALSE, contexts |-> ctxs]
    ELSE LET op == ops[Len(ops)]
             rest == SubSeq(ops, 1, Len(ops) - 1)
         IN  IF op.kind = Write
             THEN LET r == MemoryState_set(ctxs, op.address, op.value, checked)
                  IN  IF r.panic THEN r
                      ELSE apply_ops_reversed(r.contexts, rest, checked)
             ELSE apply_ops_reversed(ctxs, rest, checked)

\* apply_ops without the test of the kind
RECURSIVE apply_ops_every_kind(_, _, _)
apply_ops_every_kind(ctxs, ops, checked) ==
    IF ops = <<>>
    THEN [panic |-> FALSE, contexts |-> ctxs]
    ELSE LET op == Head(ops)
             r == MemoryState_set(ctxs, op.address, op.value, checked)
         IN  IF r.panic THEN r
             ELSE apply_ops_every_kind(r.contexts, Tail(ops), checked)

RECURSIVE apply_ops(_, _, _)
apply_ops(ctxs, ops, checked) ==
    IF ops = <<>>
    THEN [panic |-> FALSE, contexts |-> ctxs]
    ELSE LET op == Head(ops)
         IN  IF op.kind = Write
             THEN LET r == MemoryState_set(ctxs, op.address, op.value, checked)
                  IN  IF r.panic THEN r
                      ELSE apply_ops(r.contexts, Tail(ops), checked)
             ELSE apply_ops(ctxs, Tail(ops), checked)

----------------------------------------------------------------------------
(* Inputs of the calls *)

Bytes == {0, 255}
Words == {1, 2}

RECURSIVE SeqsUpTo(_, _)
SeqsUpTo(S, n) ==
    IF n = 0 THEN {<<>>}
    ELSE LET shorter == SeqsUpTo(S, n - 1)
         IN  shorter \cup {Append(q, x) : q \in {t \in shorter : Len(t) = n - 1}, x \in S}

Images == SeqsUpTo(Bytes, MaxImageLen)

\* addresses a caller writes to: a code cell, a code cell past a short
\* image, a cell that leaves a gap below it, a cell two contexts beyond the
\* initial one
GoodAddrs ==
    {MemoryAddress_new(0, SegmentCode, 0),
     MemoryAddress_new(0, SegmentCode, 2),
     MemoryAddress_new(0, 1, 1),
     MemoryAddress_new(2, 1, 0)}

\* a segment index that is no catalog entry, and the largest offset
BadAddrs ==
    {MemoryAddress_new(2, SegmentCount, 0),
     MemoryAddress_new(0, 1, USIZE_MAX)}

WriteAddrs == GoodAddrs \cup BadAddrs

\* addresses a caller reads
ReadAddrs ==
    {MemoryAddress_new(c, s, v) :
        c \in 0..2, s \in 0..SegmentCount, v \in (0..MaxImageLen) \cup {USIZE_MAX}}

\* the operations a list handed to apply_ops is made of
ListWrites ==
    {MemoryOp_new(GeneralPurpose(2 - v), v, a, Write, v, TRUE).op :
        a \in GoodAddrs, v \in Words}
    \cup {MemoryOp_new(Code, 0, a, Write, 1, TRUE).op : a \in BadAddrs}

ListReads ==
    {MemoryOp_new(Code, 1, MemoryAddress_new(0, SegmentCode, 0), Read, 2, TRUE).op,
     MemoryOp_new_dummy_read(MemoryAddress_new(2, SegmentCount, USIZE_MAX), 0, 1),
     DUMMY_MEMOP}

ListOps == ListWrites \cup ListReads

----------------------------------------------------------------------------
(* The calls on one MemoryState *)

NoAddress == MemoryAddress_new(0, 0, 0)

NoCall ==
    [fn |-> "none", address |-> NoAddress, value |-> 0, ops |-> <<>>,
     pre |-> <<>>, ret |-> 0]

Init ==
    /\ kernel_code \in Images
    /\ contexts = MemoryState_new(kernel_code)
    /\ status = "ok"
    /\ used = 0
    /\ call = [NoCall EXCEPT !.fn = "new"]
    /\ made = <<>>
    /\ log = <<>>
    /\ sorted = <<>>
    /\ clk = 0
    /\ written = {}

Idle == status = "ok" /\ call = NoCall

Get ==
    /\ Idle
    /\ \E address \in ReadAddrs :
          LET r == MemoryState_get(contexts, address)
          IN  /\ call' = [NoCall EXCEPT !.fn = "get", !.address = address,
                                        !.pre = contexts, !.ret = r.val]
              /\ status' = IF r.panic THEN "panicked" ELSE "ok"
    /\ UNCHANGED <<kernel_code, contexts, used, made, log, sorted, clk, written>>

Set ==
    /\ Idle
    /\ used < MaxOps
    /\ \E address \in WriteAddrs, val \in Words, checked \in BOOLEAN :
          LET r == MemoryState_set(contexts, address, val, checked)
          IN  /\ contexts' = r.contexts
              /\ status' = IF r.panic THEN "panicked" ELSE "ok"
              /\ call' = [NoCall EXCEPT !.fn = "set", !.address = address,
                                        !.value = val, !.pre = contexts]
              /\ written' = written \cup {address}
    /\ used' = used + 1
    /\ UNCHANGED <<kernel_code, made, log, sorted, clk>>

\* the addresses of the Writes that apply_ops hands to set
RECURSIVE WrittenBy(_, _, _)
WrittenBy(ctxs, ops, checked) ==
    IF ops = <<>> THEN {}
    ELSE LET op == Head(ops)
         IN  IF op.kind = Write
             THEN LET r == MemoryState_set(ctxs, op.address, op.value, checked)
                  IN  {op.address} \cup
                      (IF r.panic THEN {}
                       ELSE WrittenBy(r.contexts, Tail(ops), checked))
             ELSE WrittenBy(ctxs, Tail(ops), checked)

ApplyOps ==
    /\ Idle
    /\ \E ops \in SeqsUpTo(ListOps, MaxOps - used), checked \in BOOLEAN :
          LET r == apply_ops(contexts, ops, checked)
          IN  /\ contexts' = r.contexts
              /\ status' = IF r.panic THEN "panicked" ELSE "ok"
              /\ call' = [NoCall EXCEPT !.fn = "apply_ops", !.ops = ops,
                                        !.pre = contexts]
              /\ written' = written \cup WrittenBy(contexts, ops, checked)
              /\ used' = used + Len(ops)
    /\ UNCHANGED <<kernel_code, made, log, sorted, clk>>

\* the caller goes on after a call that returned
Return ==
    /\ status = "ok"
    /\ call # NoCall
    /\ call' = NoCall
    /\ UNCHANGED <<kernel_code, contexts, status, used, made, log, sorted, clk, written>>

Next == Get \/ Set \/ ApplyOps \/ Return

Spec == Init /\ [][Next]_vars

----------------------------------------------------------------------------
(* Properties of the calls on one MemoryState (specification Spec) *)

\* the addresses whose segment index is a catalog entry
CatalogAddrs == {a \in ReadAddrs : a.segment < SegmentCount}

Zero == [panic |-> FALSE, val |-> 0]
Returned(v) == [panic |-> FALSE, val |-> v]

NumContexts(ctxs) == Len(ctxs)
SegmentLen(ctxs, c, s) == Len(ctxs[c + 1].segments[s].content)

\* positions of the Writes to address a in a list of operations
WritesTo(ops, a) ==
    {i \in 1..Len(ops) : ops[i].kind = Write /\ ops[i].address = a}

Max(S) == CHOOSE x \in S : \A y \in S : y <= x

\* C1: after apply_ops has returned, every address the list holds a Write to
\* reads as the value of the Write to it that comes last in the list,
\* whatever the timestamps are.
C1_LastWriteWins ==
    (call.fn = "apply_ops" /\ status = "ok") =>
        \A a \in WriteAddrs :
            WritesTo(call.ops, a) # {} =>
                MemoryState_get(contexts, a) =
                    Returned(call.ops[Max(WritesTo(call.ops, a))].value)

\* two Writes to one address with different values, the later one carrying
\* the smaller timestamp, on a cell that held something else before
C1_Witness ==
    /\ call.fn = "apply_ops"
    /\ status = "ok"
    /\ \E i, j \in 1..Len(call.ops) :
          /\ i < j
          /\ call.ops[i].kind = Write /\ call.ops[j].kind = Write
          /\ call.ops[i].address = call.ops[j].address
          /\ call.ops[i].value # call.ops[j].value
          /\ call.ops[i].timestamp > call.ops[j].timestamp
          /\ MemoryState_get(call.pre, call.ops[j].address).val = 255
          /\ MemoryState_get(contexts, call.ops[j].address).val = call.ops[j].value

InImage(a) ==
    a.context = 0 /\ a.segment = SegmentCode /\ a.virt < Len(kernel_code)

\* C2 as stated: every address never passed to set reads as 0.
C2_Original ==
    \A a \in CatalogAddrs \ written : MemoryState_get(contexts, a) = Zero

\* C2, amended: an address never passed to set, with a catalog segment index
\* or a context beyond the collection, reads as its byte of the initial
\* image when it is a code cell of context 0 below the image's length, and
\* as 0 otherwise.
C2_ZeroDefault ==
    \A a \in ReadAddrs \ written :
        (a.segment < SegmentCount \/ a.context >= NumContexts(contexts)) =>
            MemoryState_get(contexts, a) =
                Returned(IF InImage(a) THEN kernel_code[a.virt + 1] ELSE 0)

\* a cell below a written one, materialized by the write but never set
C2_Witness ==
    /\ status = "ok"
    /\ Len(kernel_code) = MaxImageLen
    /\ MemoryAddress_new(0, 1, 1) \in written
    /\ MemoryAddress_new(0, 1, 0) \notin written
    /\ SegmentLen(contexts, 0, 1) = 2
    /\ NumContexts(contexts) = 3

AllReads(ops) == \A i \in 1..Len(ops) : ops[i].kind = Read

\* C4: apply_ops on a list of Reads only, padding reads included, returns
\* and leaves every get result, the number of contexts and every segment's
\* length as they were.
C4_ReadIsolation ==
    (call.fn = "apply_ops" /\ AllReads(call.ops)) =>
        /\ status = "ok"
        /\ NumContexts(contexts) = NumContexts(call.pre)
        /\ \A c \in 0..(NumContexts(call.pre) - 1), s \in 0..(SegmentCount - 1) :
              SegmentLen(contexts, c, s) = SegmentLen(call.pre, c, s)
        /\ \A a \in ReadAddrs :
              MemoryState_get(contexts, a) = MemoryState_get(call.pre, a)

\* a real read and a padding read, one of them at a context beyond the
\* collection, applied to a state that holds written cells
C4_Witness ==
    /\ call.fn = "apply_ops"
    /\ AllReads(call.ops)
    /\ \E i, j \in 1..Len(call.ops) :
          /\ call.ops[i].filter /\ ~call.ops[j].filter
          /\ call.ops[j].address.context >= NumContexts(call.pre)
          /\ call.ops[j].value # 0
    /\ written # {}

\* C8 as stated: set on a context k at or beyond the number n of contexts
\* leaves k+1 contexts, those of indices n..k all with empty segments.
C8_Original ==
    (call.fn = "set" /\ status = "ok"
        /\ call.address.context >= NumContexts(call.pre)) =>
        /\ NumContexts(contexts) = call.address.context + 1
        /\ \A c \in NumContexts(call.pre)..call.address.context :
              contexts[c + 1] = MemoryContextState_default

\* C8, amended: set on a context k at or beyond the number n of contexts
\* leaves k+1 contexts; those of indices n..k-1 have all segments empty, and
\* context k has all segments empty except the addressed one, which holds
\* offset+1 cells, zero below the offset and the value at it.
C8_LazyContexts ==
    (call.fn = "set" /\ call.address.context >= NumContexts(call.pre)) =>
        LET k == call.address.context
            cell == [content |->
                        [i \in 1..(call.address.virt + 1) |->
                            IF i = call.address.virt + 1 THEN call.value ELSE 0]]
        IN  /\ NumContexts(contexts) = k + 1
            /\ \A c \in NumContexts(call.pre)..(k - 1) :
                  contexts[c + 1] = MemoryContextState_default
            /\ contexts[k + 1] =
                  IF status = "ok"
                  THEN [MemoryContextState_default EXCEPT
                            !.segments[call.address.segment] = cell]
                  ELSE MemoryContextState_default
            /\ SubSeq(contexts, 1, NumContexts(call.pre)) = call.pre

\* a set two contexts beyond a single context
C8_Witness ==
    /\ call.fn = "set"
    /\ status = "ok"
    /\ NumContexts(call.pre) = 1
    /\ call.address.context = 2
    /\ NumContexts(contexts) = 3

\* C9: MemoryState::new(image) has one context; its code segment reads as
\* the image below the image's length and as 0 from there on; every other
\* segment and every other context reads as 0.
C9_InitialImage ==
    call.fn = "new" =>
        /\ NumContexts(contexts) = 1
        /\ \A a \in CatalogAddrs :
              MemoryState_get(contexts, a) =
                  Returned(IF InImage(a) THEN kernel_code[a.virt + 1] ELSE 0)

\* an image of two different bytes, the larger one first
C9_Witness ==
    /\ call.fn = "new"
    /\ Len(kernel_code) = MaxImageLen
    /\ kernel_code[1] = 255
    /\ kernel_code[2] = 0
    /\ MemoryState_get(contexts, MemoryAddress_new(0, SegmentCode, 0)) = Returned(255)

----------------------------------------------------------------------------
(* MemoryOp::new on its own (specification SpecNew): `made` holds the last *)
(* two constructions, each with its arguments and what it returned.        *)

MaxClock == 1         \* clocks 0..MaxClock, besides the clocks near USIZE_MAX

Channels ==
    {Code} \cup {GeneralPurpose(n) : n \in 0..(NUM_GP_CHANNELS + 1)}
           \cup {GeneralPurpose(USIZE_MAX)}

ValidChannel(channel) ==
    channel.tag = "Code" \/ channel.n < NUM_GP_CHANNELS

\* the clocks around the largest one whose timestamps fit usize
Clocks ==
    (0..MaxClock)
    \cup {USIZE_MAX \div NUM_CHANNELS, USIZE_MAX \div NUM_CHANNELS + 1, USIZE_MAX}

\* the address, kind and value of a construction
Payloads ==
    {<<MemoryAddress_new(0, SegmentCode, 0), Read, 0>>,
     <<MemoryAddress_new(0, SegmentCode, 0), Write, 1>>,
     <<MemoryAddress_new(2, 1, USIZE_MAX), Write, 2>>}

InitNew ==
    /\ kernel_code = <<>>
    /\ contexts = MemoryState_new(kernel_code)
    /\ status = "ok"
    /\ used = 0
    /\ call = NoCall
    /\ made = <<>>
    /\ log = <<>>
    /\ sorted = <<>>
    /\ clk = 0
    /\ written = {}

New ==
    /\ status = "ok"
    /\ \E channel \in Channels, clock \in Clocks, payload \in Payloads,
          checked \in BOOLEAN :
          LET address == payload[1]
              kind == payload[2]
              value == payload[3]
              r == MemoryOp_new(channel, clock, address, kind, value, checked)
              rec == [channel |-> channel, clock |-> clock, address |-> address,
                      kind |-> kind, value |-> value,
                      index |-> MemoryChannel_index(channel),
                      panic |-> r.panic, op |-> r.op]
          IN  /\ made' = IF made = <<>> THEN <<rec>> ELSE <<made[Len(made)], rec>>
              /\ status' = IF r.panic THEN "panicked" ELSE "ok"
    /\ UNCHANGED <<kernel_code, contexts, used, call, log, sorted, clk, written>>

NextNew == New

SpecNew == InitNew /\ [][NextNew]_vars

\* the dense lane index of a valid channel, as the data model defines it
LaneIndex(channel) == IF channel.tag = "Code" THEN 0 ELSE channel.n + 1

\* C6: an operation built by MemoryOp::new on a valid channel at clock c
\* has timestamp c * NUM_CHANNELS for Code and c * NUM_CHANNELS + k + 1 for
\* GeneralPurpose(k), filter true, and the address, kind and value given.
C6_TimestampEncoding ==
    \A i \in 1..Len(made) :
        (ValidChannel(made[i].channel) /\ ~made[i].panic) =>
            /\ made[i].op.timestamp =
                  made[i].clock * NUM_CHANNELS + LaneIndex(made[i].channel)
            /\ made[i].op.filter
            /\ made[i].op.address = made[i].address
            /\ made[i].op.kind = made[i].kind
            /\ made[i].op.value = made[i].value

\* C6 for the clocks whose timestamps fit usize: there MemoryOp::new
\* returns and the encoding holds.
C6_EncodingWithinUsize ==
    \A i \in 1..Len(made) :
        (ValidChannel(made[i].channel)
            /\ made[i].clock * NUM_CHANNELS + LaneIndex(made[i].channel) <= USIZE_MAX) =>
            /\ ~made[i].panic
            /\ made[i].op.timestamp =
                  made[i].clock * NUM_CHANNELS + LaneIndex(made[i].channel)
            /\ made[i].op.filter
            /\ made[i].op.address = made[i].address
            /\ made[i].op.kind = made[i].kind
            /\ made[i].op.value = made[i].value

\* C7: of two operations built by MemoryOp::new on valid channels, the one
\* of the earlier clock has the strictly smaller timestamp, and equal
\* timestamps mean equal (clock, channel index) pairs.
C7_ClockDominance ==
    \A i, j \in 1..Len(made) :
        (ValidChannel(made[i].channel) /\ ValidChannel(made[j].channel)
            /\ ~made[i].panic /\ ~made[j].panic) =>
            /\ made[i].clock < made[j].clock =>
                  made[i].op.timestamp < made[j].op.timestamp
            /\ made[i].op.timestamp = made[j].op.timestamp =>
                  /\ made[i].clock = made[j].clock
                  /\ LaneIndex(made[i].channel) = LaneIndex(made[j].channel)

\* C7 for the clocks whose timestamps fit usize.
C7_DominanceWithinUsize ==
    \A i, j \in 1..Len(made) :
        (ValidChannel(made[i].channel) /\ ValidChannel(made[j].channel)
            /\ made[i].clock * NUM_CHANNELS + NUM_GP_CHANNELS <= USIZE_MAX
            /\ made[j].clock * NUM_CHANNELS + NUM_GP_CHANNELS <= USIZE_MAX) =>
            /\ ~made[i].panic /\ ~made[j].panic
            /\ made[i].clock < made[j].clock =>
                  made[i].op.timestamp < made[j].op.timestamp
            /\ made[i].op.timestamp = made[j].op.timestamp =>
                  /\ made[i].clock = made[j].clock
                  /\ LaneIndex(made[i].channel) = LaneIndex(made[j].channel)

\* C10: index() fails on GeneralPurpose(n) for every n >= NUM_GP_CHANNELS,
\* and MemoryOp::new with such a channel produces no operation; index()
\* returns 0 for Code and n + 1 for GeneralPurpose(n), n < NUM_GP_CHANNELS.
C10_ChannelBound ==
    \A i \in 1..Len(made) :
        LET channel == made[i].channel
        IN  /\ (channel.tag = "GeneralPurpose" /\ channel.n >= NUM_GP_CHANNELS) =>
                  (made[i].index.panic /\ made[i].panic)
            /\ channel.tag = "Code" =>
                  made[i].index = [panic |-> FALSE, val |-> 0]
            /\ (channel.tag = "GeneralPurpose" /\ channel.n < NUM_GP_CHANNELS) =>
                  made[i].index = [panic |-> FALSE, val |-> channel.n + 1]

\* a construction on the first lane that is out of range, after one on the
\* last lane that is in range
C10_Witness ==
    /\ Len(made) = 2
    /\ made[1].channel = GeneralPurpose(NUM_GP_CHANNELS - 1)
    /\ made[1].index = [panic |-> FALSE, val |-> NUM_GP_CHANNELS]
    /\ ~made[1].panic
    /\ made[2].channel = GeneralPurpose(NUM_GP_CHANNELS)
    /\ made[2].clock = 0
    /\ made[2].panic
    /\ status = "panicked"

----------------------------------------------------------------------------
(* The sort of the operation log by sorting_key (specification SpecSort).  *)
(* The caller sorts with the standard stable sort on the key tuples, which *)
(* compare lexicographically.                                              *)

MaxLog == 3           \* length of a log handed to the sort

RECURSIVE KeyLessFrom(_, _, _)
KeyLessFrom(k1, k2, i) ==
    IF i > Len(k1) THEN FALSE
    ELSE IF k1[i] # k2[i] THEN k1[i] < k2[i]
    ELSE KeyLessFrom(k1, k2, i + 1)

\* the order of tuples of usize
KeyLess(k1, k2) == KeyLessFrom(k1, k2, 1)
KeyLeq(k1, k2) == ~KeyLess(k2, k1)

\* op goes after every element whose key is not greater than its own
RECURSIVE InsertByKey(_, _)
InsertByKey(s, op) ==
    IF s = <<>> THEN <<op>>
    ELSE IF KeyLess(sorting_key(op), sorting_key(Head(s)))
         THEN <<op>> \o s
         ELSE <<Head(s)>> \o InsertByKey(Tail(s), op)

RECURSIVE SortByKey(_)
SortByKey(ops) ==
    IF ops = <<>> THEN <<>>
    ELSE InsertByKey(SortByKey(SubSeq(ops, 1, Len(ops) - 1)), ops[Len(ops)])

\* operations on four addresses that differ in one component each, at two
\* timestamps, real and padding
SortOps ==
    {MemoryOp_new(ch, 0, a, Write, 1, TRUE).op :
        ch \in {Code, GeneralPurpose(0)},
        a \in {MemoryAddress_new(0, 0, 0), MemoryAddress_new(0, 0, 1),
               MemoryAddress_new(0, 1, 0), MemoryAddress_new(1, 0, 0)}}
    \cup {MemoryOp_new_dummy_read(MemoryAddress_new(0, 0, 1), 1, 0),
          MemoryOp_new_dummy_read(MemoryAddress_new(0, 1, 0), 2, 0)}

InitSort ==
    /\ kernel_code = <<>>
    /\ contexts = MemoryState_new(kernel_code)
    /\ status = "ok"
    /\ used = 0
    /\ call = NoCall
    /\ made = <<>>
    /\ log \in SeqsUpTo(SortOps, MaxLog)
    /\ sorted = <<>>
    /\ clk = 0
    /\ written = {}

Sort ==
    /\ call = NoCall
    /\ sorted' = SortByKey(log)
    /\ call' = [NoCall EXCEPT !.fn = "sort", !.ops = log]
    /\ UNCHANGED <<kernel_code, contexts, status, used, made, log, clk, written>>

NextSort == Sort

SpecSort == InitSort /\ [][NextSort]_vars

SameAddress(op1, op2) == op1.address = op2.address

\* the number of positions of s that hold x
Count(s, x) == Cardinality({i \in 1..Len(s) : s[i] = x})

\* C5: the keys are totally ordered; the sorted log holds the operations of
\* the log, in ascending key order; the operations of one address are
\* contiguous in it and their timestamps ascend.
C5_Ordering ==
    call.fn = "sort" =>
        LET n == Len(sorted)
            key(i) == sorting_key(sorted[i])
        IN  /\ n = Len(log)
            /\ \A i \in 1..n : Count(sorted, log[i]) = Count(log, log[i])
            /\ \A i, j \in 1..n :
                  /\ KeyLeq(key(i), key(j)) \/ KeyLeq(key(j), key(i))
                  /\ (KeyLeq(key(i), key(j)) /\ KeyLeq(key(j), key(i))) => key(i) = key(j)
                  /\ \A k \in 1..n :
                        (KeyLeq(key(i), key(j)) /\ KeyLeq(key(j), key(k))) =>
                            KeyLeq(key(i), key(k))
            /\ \A i, j \in 1..n : i <= j => KeyLeq(key(i), key(j))
            /\ \A i, j, k \in 1..n :
                  (i < j /\ j < k /\ SameAddress(sorted[i], sorted[k])) =>
                      SameAddress(sorted[i], sorted[j])
            /\ \A i, j \in 1..n :
                  (i < j /\ SameAddress(sorted[i], sorted[j])) =>
                      sorted[i].timestamp <= sorted[j].timestamp

\* a log that the sort has to regroup: two operations on one address with
\* another address between them, the later one carrying the smaller
\* timestamp
C5_Witness ==
    /\ call.fn = "sort"
    /\ Len(log) = 3
    /\ SameAddress(log[1], log[3])
    /\ ~SameAddress(log[1], log[2])
    /\ log[1].timestamp > log[3].timestamp
    /\ KeyLess(sorting_key(log[2]), sorting_key(log[3]))
    /\ sorted = <<log[2], log[3], log[1]>>

----------------------------------------------------------------------------
(* The executor's trace (specification SpecTrace): every cycle the         *)
(* executor emits operations on its lanes in lane order.  A Read carries   *)
(* the value get returns when it is emitted; a Write is applied when it is *)
(* emitted.                                                                *)

TraceImages == {<<>>, <<255>>}

TraceAddrs == {MemoryAddress_new(0, SegmentCode, 0), MemoryAddress_new(2, 1, 0)}

Lanes == {Code} \cup {GeneralPurpose(n) : n \in 0..(NUM_GP_CHANNELS - 1)}

InitTrace ==
    /\ kernel_code \in TraceImages
    /\ contexts = MemoryState_new(kernel_code)
    /\ status = "ok"
    /\ used = 0
    /\ call = NoCall
    /\ made = <<>>
    /\ log = <<>>
    /\ sorted = <<>>
    /\ clk = 0
    /\ written = {}

\* timestamps strictly increase along the log
After(op) == IF Len(log) = 0 THEN TRUE ELSE log[Len(log)].timestamp < op.timestamp

EmitRead ==
    /\ Len(log) < MaxLog
    /\ \E clock \in {clk, clk + 1}, channel \in Lanes, address \in TraceAddrs :
          LET val == MemoryState_get(contexts, address).val
              op == MemoryOp_new(channel, clock, address, Read, val, TRUE).op
          IN  /\ clock <= MaxClock
              /\ After(op)
              /\ log' = Append(log, op)
              /\ clk' = clock
    /\ UNCHANGED <<kernel_code, contexts, status, used, call, made, sorted, written>>

EmitWrite ==
    /\ Len(log) < MaxLog
    /\ \E clock \in {clk, clk + 1}, channel \in Lanes, address \in TraceAddrs,
          val \in Words :
          LET op == MemoryOp_new(channel, clock, address, Write, val, TRUE).op
          IN  /\ clock <= MaxClock
              /\ After(op)
              /\ log' = Append(log, op)
              /\ clk' = clock
              /\ contexts' = apply_ops(contexts, <<op>>, TRUE).contexts
              /\ written' = written \cup {address}
    /\ UNCHANGED <<kernel_code, status, used, call, made, sorted>>

NextTrace == EmitRead \/ EmitWrite

SpecTrace == InitTrace /\ [][NextTrace]_vars

\* positions before i in s of the Writes to the address of s[i]
WritesBefore(s, i) ==
    {j \in 1..(i - 1) : s[j].kind = Write /\ SameAddress(s[j], s[i])}

\* C3 as stated: in the log sorted by sorting_key, every Read has the value
\* of the last Write to its address before it, or zero if there is none.
C3_Original ==
    LET s == SortByKey(log)
    IN  \A i \in 1..Len(s) :
            s[i].kind = Read =>
                s[i].value = IF WritesBefore(s, i) = {} THEN 0
                             ELSE s[Max(WritesBefore(s, i))].value

\* C3, amended: in the log sorted by sorting_key, every Read has the value
\* of the last Write to its address before it, or, if there is none, the
\* value MemoryState::new gave the cell: its byte of the initial image for
\* a code cell of context 0 below the image's length, zero otherwise.
C3_Consistency ==
    LET s == SortByKey(log)
    IN  \A i \in 1..Len(s) :
            s[i].kind = Read =>
                s[i].value = IF WritesBefore(s, i) # {}
                             THEN s[Max(WritesBefore(s, i))].value
                             ELSE IF InImage(s[i].address)
                                  THEN kernel_code[s[i].address.virt + 1]
                                  ELSE 0

\* a trace the sort regroups: a Write to the far cell, then a Read of the
\* code cell that no Write precedes and that returns the image's byte, then
\* a Read of the far cell that returns the value written
C3_Witness ==
    /\ Len(log) = 3
    /\ SortByKey(log) = <<log[2], log[1], log[3]>>
    /\ log[1].kind = Write
    /\ log[2].kind = Read /\ log[2].value = 255
    /\ ~SameAddress(log[1], log[2])
    /\ log[3].kind = Read /\ log[3].value = log[1].value
    /\ SameAddress(log[1], log[3])

----------------------------------------------------------------------------
(* The order of emission and the sorted log (specification SpecNew): the   *)
(* two constructions held in `made` are the emitted list, in either order. *)

\* the constructions that returned an operation on a valid channel
Emitted(i) == ValidChannel(made[i].channel) /\ ~made[i].panic

DistinctPairs ==
    made[1].clock # made[2].clock
        \/ LaneIndex(made[1].channel) # LaneIndex(made[2].channel)

\* C11: operations built by MemoryOp::new on distinct (clock, channel)
\* pairs sort to the same sequence in whatever order they were emitted, and
\* of two such operations on one clock and one address the one of the smaller
\* channel index comes first in the sorted sequence.
C11_EmissionOrder ==
    (Len(made) = 2 /\ Emitted(1) /\ Emitted(2) /\ DistinctPairs) =>
        LET op1 == made[1].op
            op2 == made[2].op
        IN  /\ SortByKey(<<op1, op2>>) = SortByKey(<<op2, op1>>)
            /\ (made[1].clock = made[2].clock /\ op1.address = op2.address
                  /\ LaneIndex(made[1].channel) < LaneIndex(made[2].channel)) =>
                  SortByKey(<<op2, op1>>) = <<op1, op2>>

\* C11 for the clocks whose timestamps fit usize.
C11_OrderWithinUsize ==
    (Len(made) = 2
        /\ ValidChannel(made[1].channel) /\ ValidChannel(made[2].channel)
        /\ made[1].clock * NUM_CHANNELS + NUM_GP_CHANNELS <= USIZE_MAX
        /\ made[2].clock * NUM_CHANNELS + NUM_GP_CHANNELS <= USIZE_MAX
        /\ DistinctPairs) =>
        LET op1 == made[1].op
            op2 == made[2].op
        IN  /\ ~made[1].panic /\ ~made[2].panic
            /\ SortByKey(<<op1, op2>>) = SortByKey(<<op2, op1>>)
            /\ (made[1].clock = made[2].clock /\ op1.address = op2.address
                  /\ LaneIndex(made[1].channel) < LaneIndex(made[2].channel)) =>
                  SortByKey(<<op2, op1>>) = <<op1, op2>>

----------------------------------------------------------------------------
(* Reads out of range (specification Spec) *)

\* the context, the segment index or the offset of address a is out of range
OutOfRange(ctxs, a) ==
    \/ a.context >= NumContexts(ctxs)
    \/ a.segment >= SegmentCount
    \/ a.virt >= SegmentLen(ctxs, a.context, a.segment)

\* C12 as stated: get never fails, and returns 0 for every address of which
\* the context, the segment index or the offset is out of range.
C12_Original ==
    call.fn = "get" =>
        /\ status = "ok"
        /\ OutOfRange(call.pre, call.address) => call.ret = 0

\* C12: get returns 0 for every address whose context is not below the
\* number of contexts, whatever its segment index; on a context in range get
\* fails exactly when the segment index is no catalog entry, and returns 0
\* when the offset is not below the length of the segment.
C12_SilentZero ==
    call.fn = "get" =>
        LET a == call.address
        IN  IF a.context >= NumContexts(call.pre)
            THEN status = "ok" /\ call.ret = 0
            ELSE IF a.segment >= SegmentCount
                 THEN status = "panicked"
                 ELSE /\ status = "ok"
                      /\ a.virt >= SegmentLen(call.pre, a.context, a.segment) =>
                            call.ret = 0

\* a read of a segment index that is no catalog entry returns 0 in a context
\* past the end, while the segment index fails in the contexts in range
C12_Witness ==
    /\ call.fn = "get"
    /\ status = "ok"
    /\ call.address.segment = SegmentCount
    /\ call.address.context > NumContexts(contexts)
    /\ written # {}
    /\ call.ret = 0
    /\ MemoryState_get(contexts, [call.address EXCEPT !.context = 0]).panic

----------------------------------------------------------------------------
(* Growth of a segment by set (specification Spec) *)

\* the content of segment s of context c, empty where the context is absent
ContentOf(ctxs, c, s) ==
    IF c < NumContexts(ctxs) THEN ctxs[c + 1].segments[s].content ELSE <<>>

\* C13: after set(address, value) has returned, with o the offset and L the
\* length the addressed segment had before: if o >= L the segment has
\* exactly o + 1 cells, the cells L..o-1 hold 0, the cells below L hold what
\* they held and the cell o holds value; if o < L the length is unchanged
\* and only the cell o has changed, to value.
C13_LazyGrowth ==
    (call.fn = "set" /\ status = "ok") =>
        LET a == call.address
            o == a.virt
            before == ContentOf(call.pre, a.context, a.segment)
            after == ContentOf(contexts, a.context, a.segment)
            L == Len(before)
        IN  /\ MemoryState_get(contexts, a) = Returned(call.value)
            /\ IF o >= L
               THEN /\ Len(after) = o + 1
                    /\ \A i \in 1..L : after[i] = before[i]
                    /\ \A i \in (L + 1)..o : after[i] = 0
                    /\ after[o + 1] = call.value
               ELSE /\ Len(after) = L
                    /\ after = [before EXCEPT ![o + 1] = call.value]

\* a set two cells past the end of a segment that holds a non-zero cell
\* leaves a zero cell between the old cell and the new one
C13_Witness ==
    /\ call.fn = "set"
    /\ status = "ok"
    /\ LET a == call.address
           before == ContentOf(call.pre, a.context, a.segment)
           after == ContentOf(contexts, a.context, a.segment)
       IN  /\ Len(before) = 1
           /\ before[1] # 0
           /\ a.virt = 2
           /\ after = <<before[1], 0, call.value>>

\* a set below the end of a segment changes the one cell
C13_WitnessInside ==
    /\ call.fn = "set"
    /\ status = "ok"
    /\ LET a == call.address
           before == ContentOf(call.pre, a.context, a.segment)
           after == ContentOf(contexts, a.context, a.segment)
       IN  /\ Len(before) = 2
           /\ a.virt = 0
           /\ before[1] # call.value
           /\ after = <<call.value, before[2]>>

----------------------------------------------------------------------------
(* The cells that occupy storage (specification Spec) *)

\* the cell of address a occupies storage
Materialized(ctxs, a) ==
    /\ a.context < NumContexts(ctxs)
    /\ a.virt < SegmentLen(ctxs, a.context, a.segment)

\* a Write went to the segment of address a at the offset of a or above it
CoveredByWrite(a) ==
    \E w \in written :
        w.context = a.context /\ w.segment = a.segment /\ w.virt >= a.virt

\* C14 as stated: a cell occupies storage exactly if it was loaded from the
\* initial image or a Write went to it.
C14_Original ==
    status = "ok" =>
        \A a \in CatalogAddrs :
            Materialized(contexts, a) <=> (InImage(a) \/ a \in written)

\* C14: in every state reached by calls that returned, a cell occupies
\* storage exactly if it was loaded from the initial image or a Write went
\* to its segment at its offset or at a larger one.
C14_StorageOnlyBelowWrites ==
    status = "ok" =>
        \A a \in CatalogAddrs :
            Materialized(contexts, a) <=> (InImage(a) \/ CoveredByWrite(a))

\* a cell that was never written and is not of the image occupies storage,
\* below a written cell, and reads 0
C14_Witness ==
    /\ status = "ok"
    /\ \E a \in CatalogAddrs :
          /\ Materialized(contexts, a)
          /\ ~InImage(a)
          /\ a \notin written
          /\ CoveredByWrite(a)
          /\ MemoryState_get(contexts, a) = Zero
          /\ a.segment = SegmentCode
          /\ kernel_code # <<>>

----------------------------------------------------------------------------
(* Storage over a sequence of calls (specification Spec) *)

\* nothing that occupied storage in ctxs1 is missing in ctxs2
Grown(ctxs1, ctxs2) ==
    /\ NumContexts(ctxs1) <= NumContexts(ctxs2)
    /\ \A c \in 0..(NumContexts(ctxs1) - 1), s \in 0..(SegmentCount - 1) :
          SegmentLen(ctxs1, c, s) <= SegmentLen(ctxs2, c, s)

\* C15: a get, set or apply_ops call leaves no fewer contexts than it found
\* and no segment shorter than it found it, so that along any sequence of
\* calls every materialized cell stays materialized.
C15_OneWay ==
    call.fn \in {"get", "set", "apply_ops"} => Grown(call.pre, contexts)

\* C15 for the calls that return.
C15_OneWayOfReturningCalls ==
    (call.fn \in {"get", "set", "apply_ops"} /\ status = "ok") =>
        Grown(call.pre, contexts)

----------------------------------------------------------------------------
(* get and the storage (specification Spec) *)

\* C16: get leaves the number of contexts, every segment length and every
\* stored word as they were, and it returns 0 when the context is not below
\* the number of contexts or the offset is not below the length of the
\* addressed segment.
C16_GetFrame ==
    call.fn = "get" =>
        LET a == call.address
        IN  /\ contexts = call.pre
            /\ a.context >= NumContexts(call.pre) =>
                  (status = "ok" /\ call.ret = 0)
            /\ (a.context < NumContexts(call.pre) /\ a.segment < SegmentCount
                  /\ a.virt >= SegmentLen(call.pre, a.context, a.segment)) =>
                  (status = "ok" /\ call.ret = 0)

\* a get just past the end of a segment whose last cell is not 0 returns 0
\* and the segment is as long as it was
C16_Witness ==
    /\ call.fn = "get"
    /\ status = "ok"
    /\ LET a == call.address
       IN  /\ a.context < NumContexts(contexts)
           /\ a.segment < SegmentCount
           /\ a.virt = SegmentLen(contexts, a.context, a.segment)
           /\ a.virt > 0
           /\ ContentOf(contexts, a.context, a.segment)[a.virt] # 0
           /\ call.ret = 0
           /\ contexts = call.pre

----------------------------------------------------------------------------
(* MemoryAddress::increment on its own (specification SpecInc): the record *)
(* `call` holds the address a scan advances and the one it held before.    *)

\* where a scan starts: offsets at the start and just below the largest one
ScanStarts ==
    {MemoryAddress_new(c, s, v) :
        c \in 0..2, s \in 0..SegmentCount, v \in {0, USIZE_MAX - 1, USIZE_MAX}}

InitInc ==
    /\ kernel_code = <<>>
    /\ contexts = MemoryState_new(kernel_code)
    /\ status = "ok"
    /\ used = 0
    /\ \E address \in ScanStarts :
          call = [NoCall EXCEPT !.address = address, !.pre = address]
    /\ made = <<>>
    /\ log = <<>>
    /\ sorted = <<>>
    /\ clk = 0
    /\ written = {}

Increment ==
    /\ call' = [call EXCEPT !.fn = "increment",
                            !.address = MemoryAddress_increment(call.address),
                            !.pre = call.address]
    /\ UNCHANGED <<kernel_code, contexts, status, used, made, log, sorted, clk, written>>

NextInc == Increment

SpecInc == InitInc /\ [][NextInc]_vars

\* C17: increment leaves context and segment as they were and adds 1 to an
\* offset below the largest one; the largest offset stays the largest, so
\* that no number of calls makes the offset smaller.
C17_IncrementSaturates ==
    call.fn = "increment" =>
        /\ call.address.context = call.pre.context
        /\ call.address.segment = call.pre.segment
        /\ call.address.virt =
              (IF call.pre.virt < USIZE_MAX THEN call.pre.virt + 1 ELSE USIZE_MAX)
        /\ call.address.virt >= call.pre.virt
        /\ call.address.virt <= USIZE_MAX

\* an increment of an address that already holds the largest offset
C17_Witness ==
    /\ call.fn = "increment"
    /\ call.pre.virt = USIZE_MAX
    /\ call.address.virt = USIZE_MAX
    /\ call.address.context = 2
    /\ call.address.segment = 1

----------------------------------------------------------------------------
(* The frame of set (specification Spec) *)

\* the addresses the observed call writes to
Targets ==
    IF call.fn = "set" THEN {call.address}
    ELSE {call.ops[i].address : i \in {j \in 1..Len(call.ops) : call.ops[j].kind = Write}}

\* C18 as stated: after a set, or an apply_ops, that returned, get gives for
\* every address the call did not write to what it gave before the call.
C18_Original ==
    (call.fn \in {"set", "apply_ops"} /\ status = "ok") =>
        \A b \in ReadAddrs \ Targets :
            MemoryState_get(contexts, b) = MemoryState_get(call.pre, b)

\* C18: after a set, or an apply_ops, that returned, get gives for every
\* address of a catalog segment the call did not write to what it gave
\* before the call.
C18_SetFrame ==
    (call.fn \in {"set", "apply_ops"} /\ status = "ok") =>
        \A b \in CatalogAddrs \ Targets :
            MemoryState_get(contexts, b) = MemoryState_get(call.pre, b)

\* a Write applied through apply_ops past the end of a segment: the cell
\* below it that held a value holds it still, the cell between them reads 0
\* as before
C18_Witness ==
    /\ call.fn = "apply_ops"
    /\ status = "ok"
    /\ \E a \in Targets :
          /\ a.virt = 2
          /\ MemoryState_get(call.pre, a) = Zero
          /\ MemoryState_get(contexts, a).val # 0
          /\ LET b0 == [a EXCEPT !.virt = 0]
                 b1 == [a EXCEPT !.virt = 1]
             IN  /\ b0 \notin Targets /\ b1 \notin Targets
                 /\ MemoryState_get(call.pre, b0).val = 255
                 /\ MemoryState_get(contexts, b0).val = 255
                 /\ ~Materialized(call.pre, b1)
                 /\ Materialized(contexts, b1)
                 /\ MemoryState_get(contexts, b1) = Zero

----------------------------------------------------------------------------
(* Applying the log before and after the sort (specification SpecTrace):   *)
(* the log is in ascending timestamp order, `contexts` is the MemoryState  *)
(* the executor reached by applying each Write as it was emitted.          *)

\* C19: apply_ops on the log in the order of emission and apply_ops on the
\* log sorted by sorting_key, both from the initial state, return the same
\* MemoryState, the one the executor holds.
C19_ApplyCommutesWithSort ==
    LET initial == MemoryState_new(kernel_code)
        chronological == apply_ops(initial, log, TRUE)
        bykey == apply_ops(initial, SortByKey(log), TRUE)
    IN  /\ ~chronological.panic
        /\ chronological.contexts = contexts
        /\ bykey = chronological

\* two Writes of different values to the far cell and then a Write to the
\* code cell: the sort moves the last Write to the front
C19_Witness ==
    /\ Len(log) = 3
    /\ log[1].kind = Write /\ log[2].kind = Write /\ log[3].kind = Write
    /\ log[1].address = log[2].address
    /\ log[1].value # log[2].value
    /\ SortByKey(log) = <<log[3], log[1], log[2]>>
    /\ kernel_code # <<>>
    /\ MemoryState_get(contexts, log[2].address) = Returned(log[2].value)
    /\ MemoryState_get(contexts, log[3].address) = Returned(log[3].value)
    /\ apply_ops(MemoryState_new(kernel_code), SortByKey(log), TRUE).contexts = contexts

----------------------------------------------------------------------------
(* A write at the largest offset (specification Spec) *)

\* the observed call is a set at the largest offset of a catalog segment
SetAtMaxOffset ==
    /\ call.fn = "set"
    /\ call.address.virt = USIZE_MAX
    /\ call.address.segment < SegmentCount

\* C20: a set at the largest offset returns, leaves every cell stored before
\* as it was, shortens no segment, and get of the address gives the value.
C20_MaxOffsetWrite ==
    SetAtMaxOffset =>
        /\ status = "ok"
        /\ MemoryState_get(contexts, call.address) = Returned(call.value)
        /\ Grown(call.pre, contexts)
        /\ \A b \in CatalogAddrs \ {call.address} :
              Materialized(call.pre, b) =>
                  MemoryState_get(contexts, b) = MemoryState_get(call.pre, b)

\* what the code does on a set at the largest offset: it never returns; it
\* leaves the addressed segment as it was or, where the addition wraps,
\* empty, and the value is not stored.
C20_MaxOffsetFails ==
    SetAtMaxOffset =>
        LET a == call.address
        IN  /\ status = "panicked"
            /\ MemoryState_get(contexts, a) = Zero
            /\ \/ contexts = PushContexts(call.pre, a.context)
               \/ contexts = [PushContexts(call.pre, a.context) EXCEPT
                                 ![a.context + 1].segments[a.segment].content = <<>>]

====
